---------------------------- MODULE Spec2Model ----------------------------
(***************************************************************************)
(* codemod-tox: generative tox environment names (codemod_tox/core.py).    *)
(*                                                                         *)
(* A Python str is modelled as a sequence of one-character strings, so     *)
(* "py" is <<"p", "y">>.  A piece of a ToxEnv is a record tagged by kind:  *)
(* a literal str or a ToxOptions holding a tuple of str.                   *)
(***************************************************************************)
EXTENDS Naturals, Integers, Sequences, FiniteSets, Bags, TLC

VARIABLES env, src, op, arg, res, text, steps

vars == <<env, src, op, arg, res, text, steps>>

---------------------------------------------------------------------------
(* Bounds of the model.                                                    *)

\* longest literal, alternative or argument string
MaxLen == 2
\* most alternatives in one initial ToxOptions
MaxOpts == 2
\* most pieces in one initial ToxEnv
MaxPieces == 3
\* most characters in one initial ToxEnv
MaxChars == 4
\* most add/hoist calls chained on one ToxEnv
MaxSteps == 2
\* longest text handed to parse
MaxText == 5

\* characters of the literal token class [A-Za-z0-9-_] used in the model
LiteralChars == {"a", "b"}
\* horizontal whitespace [ \t]
SpaceChars == {" "}
NL == "\n"
\* every character a parsed text is drawn from; "." stands for any
\* character outside the token alphabet
TextChars == {"a", ",", "{", "}", " ", NL, "."}

---------------------------------------------------------------------------
(* Python str primitives.                                                  *)

Range(s) == {s[k] : k \in 1 .. Len(s)}

Min(a, b) == IF a <= b THEN a ELSE b

Max(a, b) == IF a >= b THEN a ELSE b

\* s[lo:hi] with Python's treatment of negative and out-of-range indices
PySlice(s, lo, hi) ==
  LET n == Len(s)
      norm(k) == IF k < 0 THEN Max(k + n, 0) ELSE Min(k, n)
  IN  SubSeq(s, norm(lo) + 1, norm(hi))

\* str.startswith
StrStartsWith(s, prefix) ==
  Len(prefix) <= Len(s) /\ SubSeq(s, 1, Len(prefix)) = prefix

\* str.removeprefix: strips the prefix when present, else returns s unchanged
StrRemovePrefix(s, prefix) ==
  IF StrStartsWith(s, prefix) THEN SubSeq(s, Len(prefix) + 1, Len(s)) ELSE s

\* "".join(parts)
RECURSIVE Join(_)
Join(parts) ==
  IF parts = <<>> THEN <<>> ELSE Head(parts) \o Join(Tail(parts))

\* sep.join(parts) for a one-character separator
RECURSIVE JoinWith(_, _)
JoinWith(sep, parts) ==
  IF parts = <<>> THEN <<>>
  ELSE IF Len(parts) = 1 THEN parts[1]
  ELSE parts[1] \o <<sep>> \o JoinWith(sep, Tail(parts))

\* s.split(sep) for a one-character separator
RECURSIVE Split(_, _)
Split(s, sep) ==
  IF \A k \in 1 .. Len(s) : s[k] /= sep THEN <<s>>
  ELSE LET k == CHOOSE k \in 1 .. Len(s) :
                  s[k] = sep /\ \A m \in 1 .. k - 1 : s[m] /= sep
       IN  <<SubSeq(s, 1, k - 1)>> \o Split(SubSeq(s, k + 1, Len(s)), sep)

WhiteChars == SpaceChars \cup {NL}

\* str.strip
RECURSIVE Strip(_)
Strip(s) ==
  IF s = <<>> THEN s
  ELSE IF s[1] \in WhiteChars THEN Strip(Tail(s))
  ELSE IF s[Len(s)] \in WhiteChars THEN Strip(SubSeq(s, 1, Len(s) - 1))
  ELSE s

---------------------------------------------------------------------------
(* Pieces: str | ToxOptions.                                               *)

Lit(s) == [kind |-> "str", str |-> s, options |-> <<>>]

Opt(o) == [kind |-> "opts", str |-> <<>>, options |-> o]

IsStr(p) == p.kind = "str"

\* ToxOptions.all
ToxOptions_all(o) == o

\* ToxBase.startswith on a ToxOptions: every possibility starts with prefix
ToxOptions_startswith(o, prefix) ==
  \A k \in 1 .. Len(o) : StrStartsWith(ToxOptions_all(o)[k], prefix)

\* ToxBase.__bool__ on a ToxOptions: any(self.all()), some alternative is a
\* non-empty str
ToxOptions_bool(o) == \E k \in 1 .. Len(o) : ToxOptions_all(o)[k] /= <<>>

\* a variant of one() that takes any ToxOptions written with several
\* alternatives for several values, identical or not
ToxOptions_one_ok_by_count(o) == Len(o) = 1

\* ToxBase.one succeeds iff the set of possibilities has exactly one member
ToxOptions_one_ok(o) == Cardinality(Range(ToxOptions_all(o))) = 1

ToxOptions_one(o) == CHOOSE x \in Range(ToxOptions_all(o)) : TRUE

ToxOptions_addprefix(o, prefix) == [k \in 1 .. Len(o) |-> prefix \o o[k]]

ToxOptions_addsuffix(o, suffix) == [k \in 1 .. Len(o) |-> o[k] \o suffix]

\* a variant of removeprefix that returns the alternatives as they were
ToxOptions_removeprefix_kept(o, prefix) == o

\* ToxOptions.removeprefix, after its assert self.startswith(prefix)
ToxOptions_removeprefix(o, prefix) ==
  [k \in 1 .. Len(o) |-> PySlice(o[k], Len(prefix), Len(o[k]))]

\* truth value of a piece: a str is true when non-empty
PieceBool(p) == IF IsStr(p) THEN p.str /= <<>> ELSE ToxOptions_bool(p.options)

\* p.startswith(prefix) on either kind of piece
PieceStartsWith(p, prefix) ==
  IF IsStr(p) THEN StrStartsWith(p.str, prefix)
  ELSE ToxOptions_startswith(p.options, prefix)

---------------------------------------------------------------------------
(* ToxEnv.all: the product of the ToxOptions pieces, literals held fixed.  *)

\* a variant of all() whose first ToxOptions varies fastest
RECURSIVE ToxEnv_all_first_fastest(_)
ToxEnv_all_first_fastest(pieces) ==
  IF pieces = <<>> THEN << <<>> >>
  ELSE LET rest == ToxEnv_all_first_fastest(Tail(pieces))
           p    == Head(pieces)
           n    == Len(rest)
       IN  IF IsStr(p)
           THEN [k \in 1 .. n |-> p.str \o rest[k]]
           ELSE [k \in 1 .. Len(p.options) * n |->
                   p.options[((k - 1) % Len(p.options)) + 1]
                     \o rest[((k - 1) \div Len(p.options)) + 1]]

\* itertools.product threaded through the pieces: the first ToxOptions is
\* the outermost loop, the last one varies fastest
RECURSIVE ToxEnv_all(_)
ToxEnv_all(pieces) ==
  IF pieces = <<>> THEN << <<>> >>
  ELSE LET rest == ToxEnv_all(Tail(pieces))
           p    == Head(pieces)
           n    == Len(rest)
       IN  IF IsStr(p)
           THEN [k \in 1 .. n |-> p.str \o rest[k]]
           ELSE [k \in 1 .. Len(p.options) * n |->
                   p.options[((k - 1) \div n) + 1] \o rest[((k - 1) % n) + 1]]

\* ToxBase.startswith on a ToxEnv
ToxEnv_startswith(pieces, prefix) ==
  LET a == ToxEnv_all(pieces)
  IN  \A k \in 1 .. Len(a) : StrStartsWith(a[k], prefix)

---------------------------------------------------------------------------
(* ToxEnv._bucket: split into (left literal, middle ToxOptions, right).    *)

BucketStart ==
  [kind |-> "ok", left |-> <<>>, hasMiddle |-> FALSE, middle |-> <<>>,
   right |-> <<>>]

\* "if middle:" is false for None and for a ToxOptions whose truth value is
\* false
BucketMiddleTrue(st) == st.hasMiddle /\ ToxOptions_bool(st.middle)

\* a variant of the literal branch that never looks at middle
BucketLiteral_left_only(st, s) == [st EXCEPT !.left = @ \o s]

\* the literal branch, also taken for a ToxOptions on which one() succeeds
BucketLiteral(st, s) ==
  IF BucketMiddleTrue(st) THEN [st EXCEPT !.right = @ \o s]
  ELSE [st EXCEPT !.left = @ \o s]

\* one iteration of the loop over self.pieces
BucketStep(st, p) ==
  IF IsStr(p) THEN BucketLiteral(st, p.str)
  ELSE IF ToxOptions_one_ok(p.options)
       THEN BucketLiteral(st, ToxOptions_one(p.options))
       ELSE IF BucketMiddleTrue(st)
            THEN [BucketStart EXCEPT !.kind = "HoistError"]
            ELSE [st EXCEPT !.hasMiddle = TRUE, !.middle = p.options]

RECURSIVE BucketFrom(_, _)
BucketFrom(pieces, st) ==
  IF pieces = <<>> \/ st.kind /= "ok" THEN st
  ELSE BucketFrom(Tail(pieces), BucketStep(st, Head(pieces)))

ToxEnv_bucket(pieces) == BucketFrom(pieces, BucketStart)

---------------------------------------------------------------------------
(* ToxEnv.hoist and its two paths.                                         *)

Ok(pieces) == [kind |-> "ok", pieces |-> pieces]

Raise(kind) == [kind |-> kind, pieces |-> <<>>]

\* [x for x in ... if x]
Truthy(pieces) == SelectSeq(pieces, PieceBool)

\* "if middle is None: middle = ToxOptions(("",))"
MiddleOrDefault(b) == IF b.hasMiddle THEN b.middle ELSE << <<>> >>

\* a variant of _hoist_simple that splits left at 0 instead of len(prefix)
ToxEnv_hoist_simple_unsplit(pieces, prefix) ==
  LET b == ToxEnv_bucket(pieces)
  IN  IF b.kind /= "ok" THEN Raise(b.kind)
      ELSE IF ~StrStartsWith(b.left, prefix) THEN Raise("HoistError")
      ELSE Ok(Truthy(<<Lit(<<>>),
                       Opt(ToxOptions_addprefix(MiddleOrDefault(b), b.left)),
                       Lit(b.right)>>))

ToxEnv_hoist_simple(pieces, prefix) ==
  LET b == ToxEnv_bucket(pieces)
  IN  IF b.kind /= "ok" THEN Raise(b.kind)
      ELSE IF ~StrStartsWith(b.left, prefix) THEN Raise("HoistError")
      ELSE LET pos    == Len(prefix)
               left   == PySlice(b.left, 0, pos)
               middle == ToxOptions_addprefix(MiddleOrDefault(b),
                                              PySlice(b.left, pos, Len(b.left)))
           IN  Ok(Truthy(<<Lit(left), Opt(middle), Lit(b.right)>>))

\* the loop of _hoist_difficult from piece k on, with the prefix still to be
\* found and the pieces emitted so far; the pieces left in the iterator are
\* copied when they are true
RECURSIVE HoistWalk(_, _, _, _)
HoistWalk(pieces, k, prefix, new_pieces) ==
  IF k > Len(pieces) THEN Ok(new_pieces)
  ELSE
    LET p    == pieces[k]
        tail == Truthy(SubSeq(pieces, k + 1, Len(pieces)))
    IN  IF PieceStartsWith(p, prefix)
        THEN LET rest == IF IsStr(p) THEN Lit(StrRemovePrefix(p.str, prefix))
                         ELSE Opt(ToxOptions_removeprefix(p.options, prefix))
             IN  Ok(new_pieces \o <<Lit(prefix)>>
                    \o (IF PieceBool(rest) THEN <<rest>> ELSE <<>>) \o tail)
        ELSE IF IsStr(p)
        THEN IF StrStartsWith(prefix, p.str)
             THEN HoistWalk(pieces, k + 1, StrRemovePrefix(prefix, p.str),
                            Append(new_pieces, p))
             ELSE Raise("HoistError")
        ELSE IF ~ToxOptions_one_ok(p.options) THEN Raise("HoistError")
        ELSE LET one  == ToxOptions_one(p.options)
                 left == StrRemovePrefix(prefix, one)
             IN  IF left = <<>>
                 THEN Ok(Append(new_pieces, Lit(one)) \o tail)
                 ELSE HoistWalk(pieces, k + 1, left,
                                Append(new_pieces, Lit(one)))

\* a variant of _hoist_difficult without its opening startswith check
ToxEnv_hoist_difficult_unchecked(pieces, prefix) ==
  HoistWalk(pieces, 1, prefix, <<>>)

ToxEnv_hoist_difficult(pieces, prefix) ==
  IF ~ToxEnv_startswith(pieces, prefix) THEN Raise("HoistError")
  ELSE HoistWalk(pieces, 1, prefix, <<>>)

\* a variant of hoist without the fallback on HoistError
ToxEnv_hoist_no_fallback(pieces, prefix) ==
  ToxEnv_hoist_simple(pieces, prefix)

\* try the simple path, fall back on HoistError only
ToxEnv_hoist(pieces, prefix) ==
  LET simple == ToxEnv_hoist_simple(pieces, prefix)
  IN  IF simple.kind = "HoistError"
      THEN ToxEnv_hoist_difficult(pieces, prefix)
      ELSE simple

---------------------------------------------------------------------------
(* ToxEnv.add.                                                             *)

\* first loop: the index at which it breaks, or len(value) from its else
AddI(value, left) ==
  LET stops == {i \in 0 .. Len(value) - 1 :
                  i >= Len(left) \/ value[i + 1] /= left[i + 1]}
  IN  IF stops = {} THEN Len(value)
      ELSE CHOOSE i \in stops : \A m \in stops : i <= m

\* second loop over range(len(value) - i): the index at which it breaks, or
\* len(right) from its else
AddJ(value, i, right) ==
  LET stops == {j \in 0 .. Len(value) - i - 1 :
                  j >= Len(right)
                  \/ value[Len(value) - j] /= right[Len(right) - j]}
  IN  IF stops = {} THEN Len(right)
      ELSE CHOOSE j \in stops : \A m \in stops : j <= m

\* a variant of add that leaves middle alone when it already holds the
\* alternative to append
ToxEnv_add_dedup(pieces, value) ==
  LET b == ToxEnv_bucket(pieces)
  IN  IF b.kind /= "ok" THEN Raise(b.kind)
      ELSE
        LET i       == AddI(value, b.left)
            j       == AddJ(value, i, b.right)
            left    == PySlice(b.left, 0, i)
            middle1 == ToxOptions_addprefix(MiddleOrDefault(b),
                                            PySlice(b.left, i, Len(b.left)))
            middle2 == ToxOptions_addsuffix(middle1,
                                            PySlice(b.right, 0, Len(b.right) - j))
            right   == PySlice(b.right, Len(b.right) - j, Len(b.right))
            core    == PySlice(value, i, Len(value) - j)
        IN  Ok(<<Lit(left),
                 Opt(IF core \in Range(middle2) THEN middle2
                     ELSE Append(middle2, core)),
                 Lit(right)>>)

ToxEnv_add(pieces, value) ==
  LET b == ToxEnv_bucket(pieces)
  IN  IF b.kind /= "ok" THEN Raise(b.kind)
      ELSE
        LET i       == AddI(value, b.left)
            j       == AddJ(value, i, b.right)
            left    == PySlice(b.left, 0, i)
            middle1 == ToxOptions_addprefix(MiddleOrDefault(b),
                                            PySlice(b.left, i, Len(b.left)))
            middle2 == ToxOptions_addsuffix(middle1,
                                            PySlice(b.right, 0, Len(b.right) - j))
            right   == PySlice(b.right, Len(b.right) - j, Len(b.right))
            core    == PySlice(value, i, Len(value) - j)
        IN  Ok(<<Lit(left), Opt(Append(middle2, core)), Lit(right)>>)

---------------------------------------------------------------------------
(* TOX_ENV_TOKEN_RE.finditer: the token scanner.                           *)

\* [^{}\s]: what a brace group may hold
OptionChars == (TextChars \cup LiteralChars) \ ({"{", "}"} \cup WhiteChars)

\* end of the longest run of characters of class C starting at pos
\* (pos - 1 when text[pos] is not in C)
RECURSIVE RunEnd(_, _, _)
RunEnd(s, pos, C) ==
  IF pos <= Len(s) /\ s[pos] \in C THEN RunEnd(s, pos + 1, C) ELSE pos - 1

Token(group, s) == [group |-> group, s |-> s]

\* the match of the pattern at pos: the first alternative that matches, or
\* "none" when no alternative does
MatchAt(s, pos) ==
  LET c == s[pos]
  IN  IF c = ","
      THEN Token("comma", SubSeq(s, pos, RunEnd(s, pos + 1, SpaceChars)))
      ELSE IF c = NL THEN Token("newline", <<c>>)
      ELSE IF c \in SpaceChars
      THEN Token("space", SubSeq(s, pos, RunEnd(s, pos, SpaceChars)))
      ELSE IF c \in LiteralChars
      THEN Token("literal", SubSeq(s, pos, RunEnd(s, pos, LiteralChars)))
      ELSE IF c = "{"
      THEN LET e == RunEnd(s, pos + 1, OptionChars)
           IN  IF e > pos /\ e < Len(s) /\ s[e + 1] = "}"
               THEN Token("options", SubSeq(s, pos, e + 1))
               ELSE Token("none", <<>>)
      ELSE Token("none", <<>>)

\* finditer: scan left to right; a position where nothing matches is
\* stepped over
RECURSIVE FindIter(_, _)
FindIter(s, pos) ==
  IF pos > Len(s) THEN <<>>
  ELSE LET m == MatchAt(s, pos)
       IN  IF m.group = "none" THEN FindIter(s, pos + 1)
           ELSE <<m>> \o FindIter(s, pos + Len(m.s))

Tokenize(s) == FindIter(s, 1)

---------------------------------------------------------------------------
(* parse and __str__.                                                      *)

\* a variant of ToxOptions.parse that drops the empty alternatives
ToxOptions_parse_no_empty(s) ==
  SelectSeq(Split(PySlice(s, 1, -1), ","), LAMBDA x : x /= <<>>)

\* ToxOptions.parse: s[1:-1].split(","), each alternative stripped
ToxOptions_parse(s) ==
  LET parts == Split(PySlice(s, 1, -1), ",")
  IN  [k \in 1 .. Len(parts) |-> Strip(parts[k])]

\* ToxOptions.__str__
ToxOptions_str(o) == <<"{">> \o JoinWith(",", o) \o <<"}">>

\* the loop of ToxEnv.parse over the matches
RECURSIVE EnvParseFrom(_, _)
EnvParseFrom(tokens, pieces) ==
  IF tokens = <<>> THEN Ok(pieces)
  ELSE LET m == Head(tokens)
       IN  IF m.group = "options"
           THEN EnvParseFrom(Tail(tokens),
                             Append(pieces, Opt(ToxOptions_parse(m.s))))
           ELSE IF m.group = "literal"
           THEN EnvParseFrom(Tail(tokens), Append(pieces, Lit(m.s)))
           ELSE Raise("ParseError")

ToxEnv_parse(s) == EnvParseFrom(Tokenize(s), <<>>)

PieceStr(p) == IF IsStr(p) THEN p.str ELSE ToxOptions_str(p.options)

\* ToxEnv.__str__
ToxEnv_str(pieces) == Join([k \in 1 .. Len(pieces) |-> PieceStr(pieces[k])])

ListOk(envs) == [kind |-> "ok", envs |-> envs]

ListRaise(kind) == [kind |-> kind, envs |-> <<>>]

\* the loop of ToxEnvlist.parse over the matches, then the trailing buffer
RECURSIVE ListParseFrom(_, _, _)
ListParseFrom(tokens, pieces, buf) ==
  IF tokens = <<>>
  THEN IF buf /= <<>>
       THEN LET e == ToxEnv_parse(buf)
            IN  IF e.kind = "ok" THEN ListOk(Append(pieces, e.pieces))
                ELSE ListRaise(e.kind)
       ELSE ListOk(pieces)
  ELSE LET m == Head(tokens)
       IN  IF m.group \in {"comma", "newline"}
           THEN IF buf = <<>> THEN ListRaise("AssertionError")
                ELSE LET e == ToxEnv_parse(buf)
                     IN  IF e.kind = "ok"
                         THEN ListParseFrom(Tail(tokens),
                                            Append(pieces, e.pieces), <<>>)
                         ELSE ListRaise(e.kind)
           ELSE IF m.group = "space"
           THEN ListParseFrom(Tail(tokens), pieces, buf)
           ELSE ListParseFrom(Tail(tokens), pieces, buf \o m.s)

\* a variant of ToxEnvlist.parse that parses the trailing buffer even when
\* it is empty
ToxEnvlist_parse_trailing_kept(s) ==
  LET r == ListParseFrom(Tokenize(s), <<>>, <<>>)
  IN  IF r.kind = "ok" /\ Tokenize(s) /= <<>>
         /\ Tokenize(s)[Len(Tokenize(s))].group \in {"comma", "newline"}
      THEN ListOk(Append(r.envs, <<>>))
      ELSE r

ToxEnvlist_parse(s) == ListParseFrom(Tokenize(s), <<>>, <<>>)

\* ToxEnvlist.all: each member's strings, in member order
RECURSIVE ToxEnvlist_all(_)
ToxEnvlist_all(envs) ==
  IF envs = <<>> THEN <<>>
  ELSE ToxEnv_all(Head(envs)) \o ToxEnvlist_all(Tail(envs))

---------------------------------------------------------------------------
(* The state machine: one ToxEnv under a chain of add/hoist calls, with    *)
(* the queries all, _bucket, str and parse applied to it.                  *)

\* every str of at most n characters over the character set C
RECURSIVE StrsUpTo(_, _)
StrsUpTo(C, n) ==
  IF n = 0 THEN {<<>>}
  ELSE LET shorter == StrsUpTo(C, n - 1)
       IN  shorter \cup {Append(s, c) : s \in shorter, c \in C}

Strs == StrsUpTo(LiteralChars, MaxLen)

\* every tuple of 1 .. n members of S
RECURSIVE TuplesUpTo(_, _)
TuplesUpTo(S, n) ==
  IF n = 0 THEN {<<>>}
  ELSE LET shorter == TuplesUpTo(S, n - 1)
       IN  shorter \cup {Append(t, x) : t \in shorter, x \in S}

\* a ToxOptions holds at least one alternative: split() never returns an
\* empty list, and no operation drops an alternative
InitialOptions == TuplesUpTo(Strs, MaxOpts) \ {<<>>}

\* a literal piece of a parsed ToxEnv is a non-empty run; add and hoist are
\* what produce empty ones
InitialPieces ==
  {Lit(s) : s \in Strs \ {<<>>}} \cup {Opt(o) : o \in InitialOptions}

\* characters held by a piece
PieceChars(p) ==
  IF IsStr(p) THEN Len(p.str) ELSE Len(Join(p.options))

\* every tuple of at most n initial pieces holding at most c characters
RECURSIVE EnvsWithin(_, _)
EnvsWithin(n, c) ==
  IF n = 0 THEN {<<>>}
  ELSE {<<>>} \cup
       UNION {{<<p>> \o e : e \in EnvsWithin(n - 1, c - PieceChars(p))} :
                p \in {q \in InitialPieces : PieceChars(q) <= c}}

NoRes == [kind |-> "none"]

Init ==
  /\ env \in EnvsWithin(MaxPieces, MaxChars)
  /\ src = env
  /\ op = "init"
  /\ arg = <<>>
  /\ res = NoRes
  /\ text = <<>>
  /\ steps = 0

\* the program holds a ToxEnv to go on with: no call has raised
Live == op = "init" \/ (op \in {"add", "hoist"} /\ res.kind = "ok")

\* env = env.add(value)
Add(value) ==
  /\ Live
  /\ steps < MaxSteps
  /\ LET r == ToxEnv_add(env, value)
     IN  /\ res' = r
         /\ env' = IF r.kind = "ok" THEN r.pieces ELSE env
  /\ src' = env
  /\ op' = "add"
  /\ arg' = value
  /\ text' = <<>>
  /\ steps' = steps + 1

\* env = env.hoist(prefix)
Hoist(prefix) ==
  /\ Live
  /\ steps < MaxSteps
  /\ LET r == ToxEnv_hoist(env, prefix)
     IN  /\ res' = r
         /\ env' = IF r.kind = "ok" THEN r.pieces ELSE env
  /\ src' = env
  /\ op' = "hoist"
  /\ arg' = prefix
  /\ text' = <<>>
  /\ steps' = steps + 1

\* env._bucket()
Bucket ==
  /\ Live
  /\ res' = ToxEnv_bucket(env)
  /\ src' = env
  /\ op' = "bucket"
  /\ arg' = <<>>
  /\ text' = <<>>
  /\ UNCHANGED <<env, steps>>

\* tuple(env.all())
All ==
  /\ Live
  /\ res' = [kind |-> "ok", strs |-> ToxEnv_all(env)]
  /\ src' = env
  /\ op' = "all"
  /\ arg' = <<>>
  /\ text' = <<>>
  /\ UNCHANGED <<env, steps>>

\* text = str(env)
Str ==
  /\ Live
  /\ text' = ToxEnv_str(env)
  /\ res' = NoRes
  /\ src' = env
  /\ op' = "str"
  /\ arg' = <<>>
  /\ UNCHANGED <<env, steps>>

\* ToxEnv.parse(text), of the text str(env) gave or of a text read
Parse ==
  /\ op \in {"str", "text"}
  /\ res' = ToxEnv_parse(text)
  /\ op' = "parse"
  /\ UNCHANGED <<env, src, arg, text, steps>>

Next ==
  \/ \E value \in Strs : Add(value)
  \/ \E prefix \in Strs : Hoist(prefix)
  \/ Bucket
  \/ All
  \/ Str
  \/ Parse

Spec == Init /\ [][Next]_vars

---------------------------------------------------------------------------
(* The parsers on arbitrary text.                                          *)

Texts == StrsUpTo(TextChars, MaxText)

InitText ==
  /\ text \in Texts
  /\ op = "text"
  /\ env = <<>>
  /\ src = <<>>
  /\ arg = <<>>
  /\ res = NoRes
  /\ steps = 0

\* ToxEnvlist.parse(text)
ParseList ==
  /\ op = "text"
  /\ res' = ToxEnvlist_parse(text)
  /\ op' = "parselist"
  /\ UNCHANGED <<env, src, arg, text, steps>>

\* tuple(envlist.all()) of the list just parsed
ListAll ==
  /\ op = "parselist"
  /\ res.kind = "ok"
  /\ res' = [kind |-> "ok", envs |-> res.envs,
             strs |-> ToxEnvlist_all(res.envs)]
  /\ op' = "listall"
  /\ UNCHANGED <<env, src, arg, text, steps>>

NextText == Parse \/ ParseList \/ ListAll

SpecText == InitText /\ [][NextText]_vars

---------------------------------------------------------------------------
(* Chains of add: one ToxEnv to which values are added one after another,  *)
(* src being the ToxEnv the last add was called on.                        *)

NextChain == \E value \in Strs : Add(value)

SpecChain == Init /\ [][NextChain]_vars

---------------------------------------------------------------------------
(* Properties.                                                             *)

\* the set of strings a ToxEnv generates
Generated(pieces) == Range(ToxEnv_all(pieces))

\* the strings of a sequence with their multiplicities
Multiset(strs) ==
  [x \in Range(strs) |-> Cardinality({k \in 1 .. Len(strs) : strs[k] = x})]

\* every ToxOptions piece holds at least one alternative
NonEmptyAlternatives(pieces) ==
  \A k \in 1 .. Len(pieces) : IsStr(pieces[k]) \/ pieces[k].options /= <<>>

\* indices of the ToxOptions pieces
OptionsAt(pieces) == {k \in 1 .. Len(pieces) : ~IsStr(pieces[k])}

\* indices of the ToxOptions pieces with two or more distinct alternatives
FreeAt(pieces) ==
  {k \in OptionsAt(pieces) : Cardinality(Range(pieces[k].options)) >= 2}

\* C1: add preserves and extends. After x.add(v) the result generates
\* exactly the strings of x together with v.
C1_AddPreservesAndExtends ==
  (op = "add" /\ res.kind = "ok")
    => Generated(res.pieces) = Generated(src) \cup {arg}

\* C2: hoist preserves the generated set. Whenever x.hoist(p) returns, by
\* either path, the result generates the set of strings x generates.
C2_HoistPreservesSet ==
  (op = "hoist" /\ res.kind = "ok" /\ NonEmptyAlternatives(src))
    => Generated(res.pieces) = Generated(src)

\* a hoist of a non-empty prefix over two free ToxOptions, which only the
\* general path can do, that rewrote the pieces
C2_Witness ==
  /\ op = "hoist"
  /\ res.kind = "ok"
  /\ arg /= <<>>
  /\ NonEmptyAlternatives(src)
  /\ Cardinality(FreeAt(src)) = 2
  /\ res.pieces /= src

\* the literal pieces that precede the first ToxOptions piece, joined
LiteralHead(pieces) ==
  LET stop == IF OptionsAt(pieces) = {} THEN Len(pieces) + 1
              ELSE CHOOSE k \in OptionsAt(pieces) :
                     \A m \in OptionsAt(pieces) : k <= m
  IN  Join([k \in 1 .. stop - 1 |-> pieces[k].str])

\* C3: whenever x.hoist(p) returns, the shared literal part of the result,
\* the literal pieces before its first ToxOptions piece, starts with p.
C3_PrefixIsHoisted ==
  (op = "hoist" /\ res.kind = "ok")
    => StrStartsWith(LiteralHead(res.pieces), arg)

\* a non-empty prefix was moved out of the alternatives of a leading
\* ToxOptions, which stays in the result
C3_Witness ==
  /\ op = "hoist"
  /\ res.kind = "ok"
  /\ arg /= <<>>
  /\ src /= <<>>
  /\ ~IsStr(src[1])
  /\ \E k \in OptionsAt(res.pieces) : Len(res.pieces[k].options) >= 2

\* C4: hoist either returns a ToxEnv or raises HoistError, and it raises
\* HoistError whenever some generated string does not start with the prefix.
C4_HoistTotal ==
  op = "hoist"
    => /\ res.kind \in {"ok", "HoistError"}
       /\ (\E s \in Generated(src) : ~StrStartsWith(s, arg))
            => res.kind = "HoistError"

\* a prefix blocked by a multi-valued ToxOptions: some generated strings
\* start with it, others do not
C4_Witness ==
  /\ op = "hoist"
  /\ res.kind = "HoistError"
  /\ \E s \in Generated(src) : StrStartsWith(s, arg)
  /\ \E s \in Generated(src) : ~StrStartsWith(s, arg)

\* C5: _bucket succeeds iff at most one ToxOptions piece has two or more
\* distinct alternatives; otherwise it raises and returns no triple.
C5_BucketIffOneFree ==
  op = "bucket"
    => /\ res.kind = "ok" <=> Cardinality(FreeAt(src)) <= 1
       /\ res.kind /= "ok"
            => res = [BucketStart EXCEPT !.kind = "HoistError"]

\* _bucket raised on two free ToxOptions while a third, with identical
\* alternatives, counted as a literal
C5_Witness ==
  /\ op = "bucket"
  /\ res.kind = "HoistError"
  /\ Cardinality(FreeAt(src)) = 2
  /\ Cardinality(OptionsAt(src)) = 3

RECURSIVE Product(_)
Product(ns) == IF ns = <<>> THEN 1 ELSE Head(ns) * Product(Tail(ns))

\* number of alternatives of piece k, 1 for a literal
Choices(pieces, k) ==
  IF IsStr(pieces[k]) THEN 1 ELSE Len(pieces[k].options)

\* the n-th element (from 0) of the product in product order: the digit of
\* piece k is n divided by the choices of the pieces right of k, modulo its
\* own choices
ProductElement(pieces, n) ==
  Join([k \in 1 .. Len(pieces) |->
          IF IsStr(pieces[k]) THEN pieces[k].str
          ELSE pieces[k].options[
                 ((n \div Product([m \in 1 .. Len(pieces) - k |->
                                     Choices(pieces, k + m)]))
                    % Len(pieces[k].options)) + 1]])

\* C6: all() yields one string per element of the product of the ToxOptions
\* pieces, in product order (rightmost varies fastest), duplicates kept; the
\* count is the product of the alternative counts, 1 without ToxOptions.
C6_AllIsProduct ==
  op = "all"
    => /\ Len(res.strs) =
            Product([k \in 1 .. Len(src) |-> Choices(src, k)])
       /\ \A n \in 1 .. Len(res.strs) :
            res.strs[n] = ProductElement(src, n - 1)
       /\ OptionsAt(src) = {}
            => res.strs = <<Join([k \in 1 .. Len(src) |-> src[k].str])>>

\* two ToxOptions of two alternatives each around a literal: four strings
C6_Witness ==
  /\ op = "all"
  /\ Cardinality(FreeAt(src)) = 2
  /\ \E k \in 1 .. Len(src) : IsStr(src[k])
  /\ Len(res.strs) = 4

\* literals over the token class and at least one alternative everywhere
ValidEnv(pieces) ==
  /\ NonEmptyAlternatives(pieces)
  /\ \A k \in 1 .. Len(pieces) :
       /\ Range(pieces[k].str) \subseteq LiteralChars
       /\ \A m \in 1 .. Len(pieces[k].options) :
            Range(pieces[k].options[m]) \subseteq LiteralChars

\* C7: round trip. For a valid x, parse(str(x)) succeeds and generates the
\* same multiset of strings as x.
C7_RoundTrip ==
  (op = "parse" /\ text = ToxEnv_str(env) /\ ValidEnv(env))
    => /\ res.kind = "ok"
       /\ Multiset(ToxEnv_all(res.pieces)) = Multiset(ToxEnv_all(env))

\* a ToxEnv returned by add or hoist with an empty literal piece and an empty
\* alternative, whose text parses to other pieces
C7_Witness ==
  /\ op = "parse"
  /\ text = ToxEnv_str(env)
  /\ steps > 0
  /\ \E k \in 1 .. Len(env) : IsStr(env[k]) /\ env[k].str = <<>>
  /\ \E k \in OptionsAt(env) : <<>> \in Range(env[k].options)
  /\ res.kind = "ok"
  /\ res.pieces /= env

\* number of characters of the text that the matches cover
Covered(s) ==
  LET tokens == Tokenize(s)
  IN  Len(Join([k \in 1 .. Len(tokens) |-> tokens[k].s]))

\* C8: ToxEnv.parse fails with ParseError whenever the text holds a
\* character that belongs to no token.
C8_UnmatchedCharIsParseError ==
  (op = "parse" /\ Covered(text) < Len(text)) => res.kind = "ParseError"

IsSeparator(m) == m.group \in {"comma", "newline"}

\* the tokens of the text cut at the separators: segment n (from 0) is what
\* lies between separator n and separator n + 1, whitespace runs left out
Segments(s) ==
  LET tokens == Tokenize(s)
      seps   == {k \in 1 .. Len(tokens) : IsSeparator(tokens[k])}
      at(n)  == IF n = 0 THEN 0
                ELSE IF n > Cardinality(seps) THEN Len(tokens) + 1
                ELSE CHOOSE k \in seps :
                       Cardinality({m \in seps : m < k}) = n - 1
      word(m) == IF m.group = "space" THEN <<>> ELSE m.s
  IN  [n \in 1 .. Cardinality(seps) + 1 |->
         Join([k \in 1 .. at(n) - at(n - 1) - 1 |->
                 word(tokens[at(n - 1) + k])])]

NonEmpty(s) == s /= <<>>

\* C9: ToxEnvlist.parse yields one member per non-empty segment between
\* separators, in input order, whitespace runs discarded, nothing for the
\* blank after a trailing separator; all() is the members' strings in member
\* order, duplicates kept.
C9_ListMembers ==
  (op \in {"parselist", "listall"} /\ res.kind = "ok")
    => LET segs == SelectSeq(Segments(text), NonEmpty)
       IN  /\ Len(res.envs) = Len(segs)
           /\ \A n \in 1 .. Len(segs) :
                ToxEnv_parse(segs[n]) = Ok(res.envs[n])
           /\ op = "listall"
                => /\ Len(res.strs) =
                        Len(Join([n \in 1 .. Len(res.envs) |->
                                    ToxEnv_all(res.envs[n])]))
                   /\ \A n \in 1 .. Len(res.envs) :
                        LET before == Len(ToxEnvlist_all(
                                            SubSeq(res.envs, 1, n - 1)))
                            own    == ToxEnv_all(res.envs[n])
                        IN  SubSeq(res.strs, before + 1, before + Len(own))
                              = own

\* two members around whitespace and a comma, and a trailing separator
C9_Witness ==
  /\ op = "listall"
  /\ Len(res.envs) = 2
  /\ \E k \in 1 .. Len(text) : text[k] \in SpaceChars
  /\ IsSeparator(Tokenize(text)[Len(Tokenize(text))])

\* a separator is reached while the member buffer is empty: some segment
\* other than the last one is blank
BlankBeforeSeparator(s) ==
  \E n \in 1 .. Len(Segments(s)) - 1 : Segments(s)[n] = <<>>

\* C10: ToxEnvlist.parse fails with ParseError when a separator is reached
\* while the member buffer is empty, and never yields an empty ToxEnv as a
\* member.
C10_BlankSegmentIsParseError ==
  op = "parselist"
    => /\ BlankBeforeSeparator(text) => res.kind = "ParseError"
       /\ res.kind = "ok" => \A n \in 1 .. Len(res.envs) : res.envs[n] /= <<>>

\* the string a piece stands for when it is a literal or a ToxOptions whose
\* alternatives are all the same
CollapsedStr(p) == IF IsStr(p) THEN p.str ELSE p.options[1]

\* index of the first ToxOptions piece with two or more distinct
\* alternatives, Len(pieces) + 1 without one
FirstFree(pieces) ==
  IF FreeAt(pieces) = {} THEN Len(pieces) + 1
  ELSE CHOOSE k \in FreeAt(pieces) : \A m \in FreeAt(pieces) : k <= m

\* C11: whenever _bucket succeeds with (left, middle, right), the strings
\* left + m + right, m an alternative of middle (only the empty string when
\* middle is None), are the strings all() generates; left is the
\* concatenation, in order, of the literals and single-valued ToxOptions
\* before the free ToxOptions, right of those after it.
C11_BucketTriple ==
  (op = "bucket" /\ res.kind = "ok")
    => LET f == FirstFree(src)
           m == IF res.hasMiddle THEN Range(res.middle) ELSE {<<>>}
       IN  /\ {res.left \o x \o res.right : x \in m} = Generated(src)
           /\ res.hasMiddle <=> f <= Len(src)
           /\ res.hasMiddle => res.middle = src[f].options
           /\ res.left = Join([k \in 1 .. f - 1 |-> CollapsedStr(src[k])])
           /\ res.right =
                Join([k \in 1 .. Len(src) - f |-> CollapsedStr(src[f + k])])

\* a free ToxOptions between a literal and a ToxOptions of identical
\* alternatives that went to right
C11_Witness ==
  /\ op = "bucket"
  /\ res.kind = "ok"
  /\ res.hasMiddle
  /\ res.left /= <<>>
  /\ res.right /= <<>>
  /\ \E k \in OptionsAt(src) : k > FirstFree(src)

\* length of the longest common prefix of two strs
CommonPrefixLen(a, b) ==
  CHOOSE n \in 0 .. Min(Len(a), Len(b)) :
    /\ SubSeq(a, 1, n) = SubSeq(b, 1, n)
    /\ \A m \in n + 1 .. Min(Len(a), Len(b)) :
         SubSeq(a, 1, m) /= SubSeq(b, 1, m)

\* length of the longest common suffix of two strs
CommonSuffixLen(a, b) ==
  CHOOSE n \in 0 .. Min(Len(a), Len(b)) :
    /\ SubSeq(a, Len(a) - n + 1, Len(a)) = SubSeq(b, Len(b) - n + 1, Len(b))
    /\ \A m \in n + 1 .. Min(Len(a), Len(b)) :
         SubSeq(a, Len(a) - m + 1, Len(a)) /= SubSeq(b, Len(b) - m + 1, Len(b))

\* C12: in add(value), with (left, middle, right) = _bucket(), the result is
\* split at i = the length of the longest common prefix of value and left
\* and j = the length of the longest common suffix of value[i:] and right;
\* so i + j <= len(value), and new left + core + new right is value, core
\* being the alternative that add appended.
C12_AddSplit ==
  (op = "add" /\ res.kind = "ok")
    => LET b     == ToxEnv_bucket(src)
           left  == res.pieces[1].str
           alts  == res.pieces[2].options
           right == res.pieces[3].str
           i     == Len(left)
           j     == Len(right)
       IN  /\ i = CommonPrefixLen(arg, b.left)
           /\ j = CommonSuffixLen(PySlice(arg, i, Len(arg)), b.right)
           /\ i + j <= Len(arg)
           /\ left \o alts[Len(alts)] \o right = arg

\* C13: the pieces add(value) returns are the non-empty members of
\* [new left, middle, new right]: no literal piece of the result is the
\* empty str.
C13_AddNoEmptyLiteral ==
  (op = "add" /\ res.kind = "ok")
    => \A k \in 1 .. Len(res.pieces) :
         IsStr(res.pieces[k]) => res.pieces[k].str /= <<>>

\* number of alternatives of the ToxOptions pieces of a ToxEnv, taken
\* together
AltCount(pieces) ==
  Len(Join([k \in 1 .. Len(pieces) |-> pieces[k].options]))

\* what every add of a chain leaves, whatever the count: one ToxOptions
\* piece, on which _bucket succeeds
CanonicalShape(r) ==
  /\ r.kind = "ok"
  /\ Cardinality(OptionsAt(r.pieces)) = 1
  /\ ToxEnv_bucket(r.pieces).kind = "ok"

\* C14 as stated: along add(v1), ..., add(vn) from a ToxEnv on which
\* _bucket succeeds, every result has exactly one ToxOptions piece and
\* _bucket succeeds on it, no add raises, and the alternative count is the
\* count of the initial bucket's middle (1 when it is None) plus n: one more
\* than that count after the first add, one more than the count before after
\* each later add.
C14_AddChainCount ==
  (op = "add" /\ ToxEnv_bucket(src).kind = "ok")
    => /\ CanonicalShape(res)
       /\ AltCount(res.pieces) =
            (IF steps = 1 THEN Len(MiddleOrDefault(ToxEnv_bucket(src)))
             ELSE AltCount(src)) + 1

\* C14 amended: the shape is as stated, and each add appends one alternative
\* to the middle that _bucket returns for the ToxEnv it is called on: the
\* count after an add is the count of that middle (1 when it is None, as it
\* is when the alternatives held so far are all the same) plus one.
C14_AddChainShape ==
  (op = "add" /\ ToxEnv_bucket(src).kind = "ok")
    => /\ CanonicalShape(res)
       /\ AltCount(res.pieces) =
            Len(MiddleOrDefault(ToxEnv_bucket(src))) + 1

\* a second add, of a value already generated, on a ToxEnv whose first add
\* left two identical alternatives: the count stays at two
C14_Witness ==
  /\ op = "add"
  /\ steps = 2
  /\ res.kind = "ok"
  /\ arg \in Generated(src)
  /\ AltCount(src) = 2
  /\ ~ToxEnv_bucket(src).hasMiddle
  /\ AltCount(res.pieces) = 2

\* C15: when every ToxOptions holds an alternative and _hoist_simple
\* succeeds on (x, p), _hoist_difficult succeeds on (x, p) too and the two
\* results generate the same set of strings; so hoist(p) succeeds exactly
\* when _hoist_difficult does.
C15_SimpleRefinesDifficult ==
  (op = "hoist" /\ NonEmptyAlternatives(src))
    => LET simple    == ToxEnv_hoist_simple(src, arg)
           difficult == ToxEnv_hoist_difficult(src, arg)
       IN  /\ simple.kind = "ok"
                => /\ difficult.kind = "ok"
                   /\ Generated(simple.pieces) = Generated(difficult.pieces)
                   /\ res = simple
           /\ res.kind = "ok" <=> difficult.kind = "ok"

\* a hoist of a non-empty prefix that the simple path served, where the
\* general path gives other pieces
C15_Witness ==
  /\ op = "hoist"
  /\ arg /= <<>>
  /\ NonEmptyAlternatives(src)
  /\ res.kind = "ok"
  /\ res = ToxEnv_hoist_simple(src, arg)
  /\ ToxEnv_hoist_difficult(src, arg).kind = "ok"
  /\ ToxEnv_hoist_difficult(src, arg) /= res
  /\ FreeAt(src) /= {}

=============================================================================
